---- MODULE Spec2Model ----
(***************************************************************************)
(* State-machine model of the ESG RAG API (src/api.py): the lifespan of    *)
(* the application, the process-wide vector_store, and the six endpoints   *)
(* /health, /refresh, /query, /similar-documents, /analyze-image and       *)
(* /submit-feedback, with the FastAPI scheduling they run under:           *)
(*   - every endpoint is an `async def` whose calls into vector.py are     *)
(*     plain synchronous calls, so a handler holds the event loop from its *)
(*     first statement to its return;                                      *)
(*   - the dependency get_vector_store is a plain `def`, which FastAPI     *)
(*     resolves in its thread pool before the handler is scheduled, so it  *)
(*     reads vector_store at a moment unrelated to the event loop.         *)
(* The functions imported from vector.py are not part of the sources at    *)
(* hand; they are modelled from their call sites and from the design       *)
(* document (create_vector_store_from_sql_data, Retrieve, Rank, Score).    *)
(* Two specifications share the actions:                                   *)
(*   Spec            one client that waits for each response, every        *)
(*                   endpoint, every value of the request fields;          *)
(*   SpecConcurrent  MaxReqs clients at once on the endpoints that touch   *)
(*                   vector_store, request fields left at their defaults.  *)
(***************************************************************************)
EXTENDS Integers, Sequences, FiniteSets, TLC

(* ------------------------------ bounds -------------------------------- *)
\* requests that may be in flight at the same time
MaxReqs == 2
\* records the source table may hold
MaxDocs == 2
\* largest explicit top_k a client sends (besides -1, 0 and the default)
MaxTopK == 1
\* distinct uuid4 file names
MaxFiles == 2

(* ------------------------- program constants -------------------------- *)
\* Query.top_k: Optional[int] = 3
DefaultTopK == 3
\* Query.language: Optional[str] = "English"
DefaultLanguage == "English"
\* Query.model: Optional[str] = "gemini-pro"
DefaultModel == "gemini-pro"

Reqs == 1..MaxReqs
Docs == 1..MaxDocs
Uuids == 1..MaxFiles

\* the content of the records of the source table, one word each
Words == <<"emissions", "water", "governance", "waste", "energy">>
Content(d) == Words[d]

\* query texts: one word of the corpus vocabulary
Texts == {<<Content(d)>> : d \in Docs}
TopKs == {-1, DefaultTopK} \cup (0..MaxTopK)
\* the tags a client can send: the default, the two the handler knows, and
\* the English name of French
Languages == {DefaultLanguage, "Français", "Arabic", "French"}

\* what fetch_data_from_table() returns when it does not raise: the first
\* n records of the table, for some n
Corpora == {1..n : n \in 0..MaxDocs}

(* --------------------------- the vector store ------------------------- *)
\* vector_store = None
None == [none |-> TRUE, chunks |-> {}]
\* create_vector_store_from_sql_data(documents, model): a fresh store
\* holding every fetched document
create_vector_store_from_sql_data(docs) ==
    [none |-> FALSE, chunks |-> docs]

(* ------------------------------ retrieval ----------------------------- *)
\* similarity of a chunk to a query: the occurrences of its content
Score(d, text) == Cardinality({i \in DOMAIN text : text[i] = Content(d)})

\* d comes before e in relevance order: higher score first, ties by
\* insertion order
Before(d, e, text) ==
    \/ Score(d, text) > Score(e, text)
    \/ Score(d, text) = Score(e, text) /\ d < e

RECURSIVE Rank(_, _)
Rank(S, text) ==
    IF S = {} THEN <<>>
    ELSE LET best == CHOOSE d \in S : \A e \in S \ {d} : Before(d, e, text)
         IN  <<[doc |-> best, score |-> Score(best, text)]>>
                 \o Rank(S \ {best}, text)

Min(a, b) == IF a < b THEN a ELSE b

\* retrieve_relevant_documents_with_scores(text, vs, top_k): the top_k
\* nearest chunks of vs with their scores
Retrieve(text, vs, top_k) ==
    LET ranked == Rank(vs.chunks, text)
    IN  IF top_k <= 0 THEN <<>> ELSE SubSeq(ranked, 1, Min(top_k, Len(ranked)))

\* one call of the retriever, as the log keeps it
Retrieval(by, text, vs, top_k, ok) ==
    [by |-> by, query |-> text, store |-> vs, top_k |-> top_k,
     results |-> IF ok THEN Retrieve(text, vs, top_k) ELSE <<>>]

(* --------------------------- language prefix -------------------------- *)
FrenchInstruction ==
    <<"Réponds toujours en français, quelle que soit la langue de la question.">>
\* stands for the Arabic sentence of the handler, which is not Latin-1
ArabicInstruction ==
    <<"[ar] Always answer in Arabic, whatever the language of the question.">>

SystemInstructionNone(language) == <<>>

\* system_instruction of query_rag
SystemInstruction(language) ==
    IF language = "Français" THEN FrenchInstruction
    ELSE IF language = "Arabic" THEN ArabicInstruction
    ELSE <<>>

\* modified_query of query_rag: f"{system_instruction}\n\n{query.text}"
ModifiedQuery(text, language) ==
    IF SystemInstruction(language) # <<>>
    THEN SystemInstruction(language) \o <<"\n\n">> \o text
    ELSE text

(* ------------------------------- state -------------------------------- *)
VARIABLES
    phase,          \* lifespan: "startup", "startup_build", "serving", "stopped"
    documents,      \* documents fetched by lifespan, while it builds
    vector_store,   \* the global vector_store
    uploads,        \* the files of UPLOAD_DIR
    loop,           \* the request whose handler holds the event loop, or 0
    pc,             \* per request: where it is
    work,           \* per request: the request and what its handler has done
    resp            \* the request completed last, with its response

vars == <<phase, documents, vector_store, uploads, loop, pc, work, resp>>

\* a request before it arrives; also the layout of work[r] and resp
NoRequest ==
    [kind |-> "none", status |-> 0, cause |-> "none",
     text |-> <<>>, top_k |-> 0, language |-> "",
     vs |-> None, documents |-> {},
     retrievals |-> <<>>, generations |-> <<>>, calls |-> <<>>,
     sources |-> <<>>, answer |-> <<>>,
     file |-> 0, document_count |-> 0, vector_store_loaded |-> FALSE]

Kinds == {"health", "refresh", "query", "similar", "analyze", "feedback"}
\* the endpoints that read or write vector_store
StoreKinds == {"health", "refresh", "query", "similar"}

Init ==
    /\ phase = "startup"
    /\ documents = {}
    /\ vector_store = None
    /\ uploads = {}
    /\ loop = 0
    /\ pc = [r \in Reqs |-> "idle"]
    /\ work = [r \in Reqs |-> NoRequest]
    /\ resp = NoRequest

(* ------------------------------ lifespan ------------------------------ *)
\* lifespan, before the yield: documents = fetch_data_from_table()
LifespanFetch ==
    /\ phase = "startup"
    /\ \E ok \in BOOLEAN, docs \in Corpora :
        IF ok /\ docs # {}
        THEN /\ documents' = docs
             /\ phase' = "startup_build"
        ELSE \* fetch raised (caught, printed) or "No data found in table."
             /\ documents' = {}
             /\ phase' = "serving"
    /\ UNCHANGED <<vector_store, uploads, loop, pc, work, resp>>

\* lifespan, before the yield: vector_store = create_vector_store_from_sql_data(...)
LifespanBuild ==
    /\ phase = "startup_build"
    /\ \E ok \in BOOLEAN :
        IF ok
        THEN vector_store' = create_vector_store_from_sql_data(documents)
        ELSE \* the build raised: caught and printed
             UNCHANGED vector_store
    /\ documents' = {}
    /\ phase' = "serving"
    /\ UNCHANGED <<uploads, loop, pc, work, resp>>

\* lifespan, after the yield: every file of UPLOAD_DIR is unlinked
LifespanShutdown ==
    /\ phase = "serving"
    /\ \A r \in Reqs : pc[r] = "idle"
    /\ uploads' = {}
    /\ phase' = "stopped"
    /\ UNCHANGED <<documents, vector_store, loop, pc, work, resp>>

(* ------------------------------ scheduling ---------------------------- *)
RunsInThreadPool(r) == TRUE

\* an `async def` endpoint starts when the event loop is free; with only
\* synchronous calls in its body it keeps the loop until it returns
RunsOnEventLoop(r) == loop = 0

\* the response of request r leaves the server
Complete(r, final) ==
    /\ resp' = final
    /\ pc' = [pc EXCEPT ![r] = "idle"]
    /\ work' = [work EXCEPT ![r] = NoRequest]

\* files the /analyze-image requests that wait for the loop will create
PendingUploads == {r \in Reqs : work[r].kind = "analyze" /\ work[r].file = 0}

\* a request arrives; /query and /similar-documents declare Depends(get_vector_store)
Arrive(r, kinds) ==
    /\ phase = "serving"
    /\ pc[r] = "idle"
    /\ \E kind \in kinds :
        /\ kind = "analyze" => Cardinality(uploads) + Cardinality(PendingUploads) < MaxFiles
        /\ work' = [work EXCEPT ![r] = [NoRequest EXCEPT !.kind = kind]]
        /\ pc' = [pc EXCEPT ![r] = IF kind \in {"query", "similar"} THEN "dep" ELSE "ready"]
    /\ UNCHANGED <<phase, documents, vector_store, uploads, loop, resp>>

(* --------------------------- get_vector_store ------------------------- *)
get_vector_store_unchecked(r) ==
    /\ pc[r] = "dep"
    /\ work' = [work EXCEPT ![r].vs = vector_store]
    /\ pc' = [pc EXCEPT ![r] = "ready"]
    /\ UNCHANGED <<phase, documents, vector_store, uploads, loop, resp>>

\* the dependency: 503 when vector_store is None, else the store it read
get_vector_store(r) ==
    /\ pc[r] = "dep"
    /\ IF vector_store = None
       THEN Complete(r, [work[r] EXCEPT !.status = 503, !.cause = "unavailable"])
       ELSE /\ work' = [work EXCEPT ![r].vs = vector_store]
            /\ pc' = [pc EXCEPT ![r] = "ready"]
            /\ UNCHANGED resp
    /\ UNCHANGED <<phase, documents, vector_store, uploads, loop>>

(* -------------------------------- /health ----------------------------- *)
health_check_lazy(r) ==
    /\ pc[r] = "ready" /\ work[r].kind = "health"
    /\ RunsOnEventLoop(r)
    /\ \E docs \in Corpora \ {{}} :
        /\ vector_store' = IF vector_store = None
                           THEN create_vector_store_from_sql_data(docs)
                           ELSE vector_store
        /\ Complete(r, [work[r] EXCEPT
               !.status = 200,
               !.calls = IF vector_store = None
                         THEN <<"fetch_data_from_table", "create_vector_store_from_sql_data">>
                         ELSE <<>>,
               !.vector_store_loaded = TRUE])
    /\ UNCHANGED <<phase, documents, uploads, loop>>

health_check(r) ==
    /\ pc[r] = "ready" /\ work[r].kind = "health"
    /\ RunsOnEventLoop(r)
    /\ Complete(r, [work[r] EXCEPT
           !.status = 200,
           !.vector_store_loaded = (vector_store # None)])
    /\ UNCHANGED <<phase, documents, vector_store, uploads, loop>>

(* -------------------------------- /refresh ---------------------------- *)
\* except Exception as e: raise HTTPException(status_code=500, ...); it
\* catches whatever the try block raised, the HTTPException(404) included
refresh_except(raised) == 500

\* refresh_vector_store, first call: documents = fetch_data_from_table()
RefreshFetch(r) ==
    /\ pc[r] = "ready" /\ work[r].kind = "refresh"
    /\ RunsOnEventLoop(r)
    /\ \E ok \in BOOLEAN, docs \in Corpora :
        LET w == [work[r] EXCEPT !.calls = @ \o <<"fetch_data_from_table">>]
        IN  IF ~ok
            THEN /\ Complete(r, [w EXCEPT !.status = refresh_except(0),
                                         !.cause = "fetch_error"])
                 /\ loop' = 0
            ELSE IF docs = {}
            THEN \* raise HTTPException(status_code=404, ...) inside the try
                 /\ Complete(r, [w EXCEPT !.status = refresh_except(404),
                                         !.cause = "empty"])
                 /\ loop' = 0
            ELSE /\ work' = [work EXCEPT ![r] = [w EXCEPT !.documents = docs]]
                 /\ pc' = [pc EXCEPT ![r] = "build"]
                 /\ loop' = r
                 /\ UNCHANGED resp
    /\ UNCHANGED <<phase, documents, vector_store, uploads>>

RefreshBuildClearing(r) ==
    /\ pc[r] = "build"
    /\ \E ok \in BOOLEAN :
        LET w == [work[r] EXCEPT !.calls = @ \o <<"create_vector_store_from_sql_data">>]
        IN  IF ok
            THEN /\ vector_store' = create_vector_store_from_sql_data(work[r].documents)
                 /\ Complete(r, [w EXCEPT !.status = 200,
                                         !.document_count = Cardinality(work[r].documents)])
            ELSE /\ vector_store' = None
                 /\ Complete(r, [w EXCEPT !.status = refresh_except(0),
                                         !.cause = "build_error"])
    /\ loop' = 0
    /\ UNCHANGED <<phase, documents, uploads>>

\* refresh_vector_store, second call: the build, the assignment to the
\* global and the return
RefreshBuild(r) ==
    /\ pc[r] = "build"
    /\ \E ok \in BOOLEAN :
        LET w == [work[r] EXCEPT !.calls = @ \o <<"create_vector_store_from_sql_data">>]
        IN  IF ok
            THEN /\ vector_store' = create_vector_store_from_sql_data(work[r].documents)
                 /\ Complete(r, [w EXCEPT !.status = 200,
                                         !.document_count = Cardinality(work[r].documents)])
            ELSE /\ UNCHANGED vector_store
                 /\ Complete(r, [w EXCEPT !.status = refresh_except(0),
                                         !.cause = "build_error"])
    /\ loop' = 0
    /\ UNCHANGED <<phase, documents, uploads>>

(* --------------------------------- /query ----------------------------- *)
\* generate_response_with_rag(query, vs, model): it is handed a query and a
\* store, not the documents query_rag retrieved, so it retrieves its grounding
\* context from vs with the query it is given, then calls the model once
generate_response_with_rag(query, vs, model, ok) ==
    LET ground == Retrieval("generator", query, vs, DefaultTopK, ok)
    IN  [generation |-> [prompt |-> query, store |-> vs, model |-> model],
         retrieval |-> ground,
         content |-> [prompt |-> query, context |-> ground.results]]

GeneratorStoreGlobal(r) == vector_store

\* the store query_rag hands to generate_response_with_rag: its parameter vs
GeneratorStore(r) == work[r].vs

\* query_rag: retrieve_relevant_documents_with_scores(query.text, vs, query.top_k),
\* then generate_response_with_rag(modified_query, vs, query.model)
query_rag(r, text, top_k, language, outcome) ==
    /\ pc[r] = "ready" /\ work[r].kind = "query"
    /\ RunsOnEventLoop(r)
    /\ LET vs == work[r].vs
           gs == GeneratorStore(r)
           \* a call on None raises, like a failing provider
           retrieved == outcome # "retrieval_error" /\ vs # None
           generated == outcome = "ok" /\ gs # None
           modified_query == ModifiedQuery(text, language)
           call == Retrieval("api", text, vs, top_k, retrieved)
           response == generate_response_with_rag(modified_query, gs, DefaultModel, generated)
           w == [work[r] EXCEPT !.text = text, !.top_k = top_k, !.language = language,
                                !.retrievals = @ \o <<call>>]
       IN  IF ~retrieved
           THEN Complete(r, [w EXCEPT !.status = 500, !.cause = "provider_error"])
           ELSE LET g == [w EXCEPT !.generations = @ \o <<response.generation>>,
                                   !.retrievals = @ \o <<response.retrieval>>]
                IN  IF generated
                    THEN Complete(r, [g EXCEPT !.status = 200,
                                              !.sources = call.results,
                                              !.answer = <<response.content>>])
                    ELSE Complete(r, [g EXCEPT !.status = 500,
                                              !.cause = "provider_error"])
    /\ UNCHANGED <<phase, documents, vector_store, uploads, loop>>

(* ---------------------------- /similar-documents ---------------------- *)
get_similar_documents(r, text, top_k, outcome) ==
    /\ pc[r] = "ready" /\ work[r].kind = "similar"
    /\ RunsOnEventLoop(r)
    /\ LET vs == work[r].vs
           retrieved == outcome # "retrieval_error" /\ vs # None
           call == Retrieval("api", text, vs, top_k, retrieved)
           w == [work[r] EXCEPT !.text = text, !.top_k = top_k,
                                !.language = DefaultLanguage,
                                !.retrievals = @ \o <<call>>]
       IN  IF retrieved
           THEN Complete(r, [w EXCEPT !.status = 200, !.sources = call.results])
           ELSE Complete(r, [w EXCEPT !.status = 500, !.cause = "provider_error"])
    /\ UNCHANGED <<phase, documents, vector_store, uploads, loop>>

(* ------------------------------ /analyze-image ------------------------ *)
\* analyze_image, up to the copy: a uuid4 name, the upload written under it
AnalyzeSave(r) ==
    /\ pc[r] = "ready" /\ work[r].kind = "analyze"
    /\ RunsOnEventLoop(r)
    /\ \E f \in Uuids \ uploads :
        /\ uploads' = uploads \cup {f}
        /\ work' = [work EXCEPT ![r].file = f]
    /\ pc' = [pc EXCEPT ![r] = "vision"]
    /\ loop' = r
    /\ UNCHANGED <<phase, documents, vector_store, resp>>

\* analyze_image, from analyze_infographic(file_path) on: the unlink is
\* reached only when the call returns
AnalyzeInfographic(r) ==
    /\ pc[r] = "vision"
    /\ \E outcome \in {"ok", "vision_error", "cleanup_error"} :
        LET w == [work[r] EXCEPT !.calls = @ \o <<"analyze_infographic">>]
        IN  IF outcome = "vision_error"
            THEN /\ UNCHANGED uploads
                 /\ Complete(r, [w EXCEPT !.status = 500, !.cause = "vision_error"])
            ELSE IF outcome = "cleanup_error"
            THEN \* os.unlink raised: printed, the response is still sent
                 /\ UNCHANGED uploads
                 /\ Complete(r, [w EXCEPT !.status = 200, !.cause = "cleanup_error"])
            ELSE /\ uploads' = uploads \ {work[r].file}
                 /\ Complete(r, [w EXCEPT !.status = 200])
    /\ loop' = 0
    /\ UNCHANGED <<phase, documents, vector_store>>

(* ----------------------------- /submit-feedback ----------------------- *)
submit_feedback(r) ==
    /\ pc[r] = "ready" /\ work[r].kind = "feedback"
    /\ RunsOnEventLoop(r)
    /\ \E ok \in BOOLEAN :
        LET w == [work[r] EXCEPT !.calls = @ \o <<"save_feedback">>]
        IN  IF ok
            THEN Complete(r, [w EXCEPT !.status = 200])
            ELSE Complete(r, [w EXCEPT !.status = 500, !.cause = "feedback_error"])
    /\ UNCHANGED <<phase, documents, vector_store, uploads, loop>>

(* --------------------------- the specifications ----------------------- *)
Outcomes == {"ok", "retrieval_error", "generation_error"}

\* one client that waits for each response: every endpoint, every value of
\* the request fields
Next ==
    \/ LifespanFetch
    \/ LifespanBuild
    \/ LifespanShutdown
    \/ Arrive(1, Kinds)
    \/ get_vector_store(1)
    \/ health_check(1)
    \/ RefreshFetch(1)
    \/ RefreshBuild(1)
    \/ \E text \in Texts, top_k \in TopKs, language \in Languages, outcome \in Outcomes :
          query_rag(1, text, top_k, language, outcome)
    \/ \E text \in Texts, top_k \in TopKs, outcome \in Outcomes \ {"generation_error"} :
          get_similar_documents(1, text, top_k, outcome)
    \/ AnalyzeSave(1)
    \/ AnalyzeInfographic(1)
    \/ submit_feedback(1)

Spec == Init /\ [][Next]_vars

\* MaxReqs clients at once on the endpoints that touch vector_store, the
\* request fields at the defaults of Query
NextConcurrent ==
    \/ LifespanFetch
    \/ LifespanBuild
    \/ LifespanShutdown
    \/ \E r \in Reqs :
        \/ Arrive(r, StoreKinds)
        \/ get_vector_store(r)
        \/ health_check(r)
        \/ RefreshFetch(r)
        \/ RefreshBuild(r)
        \/ \E text \in Texts, outcome \in Outcomes :
              query_rag(r, text, DefaultTopK, DefaultLanguage, outcome)
        \/ \E text \in Texts, outcome \in Outcomes \ {"generation_error"} :
              get_similar_documents(r, text, DefaultTopK, outcome)

SpecConcurrent == Init /\ [][NextConcurrent]_vars

(* ------------------------------ properties ---------------------------- *)
QueryKinds == {"query", "similar"}
\* the stores create_vector_store_from_sql_data can return: every document
\* of one fetch
CompleteStores == {create_vector_store_from_sql_data(docs) : docs \in Corpora \ {{}}}
IsPrefix(p, s) == Len(p) <= Len(s) /\ SubSeq(s, 1, Len(p)) = p
IsSuffix(p, s) == Len(p) <= Len(s) /\ SubSeq(s, Len(s) - Len(p) + 1, Len(s)) = p
\* request r leaves the server in this step
Completes(r) == pc[r] # "idle" /\ pc'[r] = "idle"
\* the response is that of a /query request that reached the generator
Generated(x) == x.kind = "query" /\ x.generations # <<>>

\* C1: /refresh answers 404 when the source returns no records and 500 when
\* the fetch or the build raises, so the two causes never share a status.
RefreshStatusByCause ==
    resp.kind = "refresh" =>
        /\ resp.cause = "empty" => resp.status = 404
        /\ resp.cause \in {"fetch_error", "build_error"} => resp.status = 500

\* C2: while no store is published every /query and /similar-documents
\* request is answered 503 with no call to the retriever or the generator;
\* no handler ever runs without a store, and 503 is never the status of a
\* provider failure, which is 500.
UnavailableIsRejected ==
    /\ \A r \in Reqs :
          pc[r] = "ready" /\ work[r].kind \in QueryKinds => work[r].vs # None
    /\ resp.kind \in QueryKinds =>
          /\ vector_store = None =>
                resp.status = 503 /\ resp.retrievals = <<>> /\ resp.generations = <<>>
          /\ resp.status = 503 <=> resp.cause = "unavailable"
          /\ resp.cause = "unavailable" =>
                resp.vs = None /\ resp.retrievals = <<>> /\ resp.generations = <<>>
          /\ resp.cause = "provider_error" => resp.status = 500 /\ resp.vs # None

\* C2 witness: a /query answered 503 while the server runs without a store.
UnavailableWitness ==
    /\ phase = "serving" /\ vector_store = None
    /\ resp.kind = "query" /\ resp.status = 503

\* C3: the sources and the answer of a /query come from one store, the one
\* its dependency read, which is a completely built store: every retrieval
\* and the generation are issued on it, and what they return are its chunks.
RefreshAtomicForReaders ==
    Generated(resp) =>
        /\ resp.vs \in CompleteStores
        /\ \A i \in DOMAIN resp.retrievals : resp.retrievals[i].store = resp.vs
        /\ \A i \in DOMAIN resp.generations : resp.generations[i].store = resp.vs
        /\ resp.status = 200 =>
              /\ resp.sources = Retrieve(resp.text, resp.vs, resp.top_k)
              /\ resp.answer[1].context =
                     Retrieve(resp.answer[1].prompt, resp.vs, DefaultTopK)

\* C3 witness: a /query answered from the store its dependency read although
\* a /refresh published another one before its handler ran (resp is the last
\* response, so no refresh completed after it).
StaleReaderWitness ==
    /\ resp.kind = "query" /\ resp.status = 200
    /\ resp.vs # vector_store

\* the prompt of the response x is the query text with nothing prepended
PromptIsText(x) == x.generations[1].prompt = x.text
\* the prompt of the response x is the French instruction, then the text
PromptIsFrench(x) ==
    /\ IsPrefix(FrenchInstruction, x.generations[1].prompt)
    /\ IsSuffix(x.text, x.generations[1].prompt)
    /\ Len(x.generations[1].prompt) > Len(x.text)

\* C4, as claimed: with the language tag "French" the prompt handed to the
\* generator starts with the French instruction followed by the query text,
\* and with the default tag it is the query text alone.
FrenchTagPrefixesPrompt ==
    Generated(resp) =>
        /\ resp.language = "French" => PromptIsFrench(resp)
        /\ resp.language = DefaultLanguage => PromptIsText(resp)

\* C4, amended: the tag that selects the French instruction is "Français";
\* the prompt is then the instruction, a blank line and the query text, and
\* with the default tag it is the query text alone.
FrancaisTagPrefixesPrompt ==
    Generated(resp) =>
        /\ resp.language = "Français" =>
              /\ PromptIsFrench(resp)
              /\ resp.generations[1].prompt =
                     FrenchInstruction \o <<"\n\n">> \o resp.text
        /\ resp.language = DefaultLanguage => PromptIsText(resp)

\* C4 witness: a /query tagged "Français" reached the generator.
FrancaisWitness ==
    Generated(resp) /\ resp.language = "Français" /\ resp.status = 200

BuildsInFlight ==
    Cardinality({r \in Reqs : pc[r] = "build"})
        + (IF phase = "startup_build" THEN 1 ELSE 0)
AtMostOneBuildInFlight == BuildsInFlight <= 1

\* C6 witness: a /refresh is building while another /refresh waits.
ConcurrentRefreshWitness ==
    \E r, q \in Reqs :
        /\ r # q
        /\ pc[r] = "build"
        /\ pc[q] = "ready" /\ work[q].kind = "refresh"

\* C7: /health reports vector_store_loaded = TRUE exactly when a store is
\* published, calls neither the source adapter nor the index builder, and
\* leaves vector_store as it is.
HealthReportsAndBuildsNothing ==
    [][\A r \in Reqs :
          work[r].kind = "health" /\ Completes(r) =>
              /\ resp'.kind = "health"
              /\ resp'.vector_store_loaded = (vector_store # None)
              /\ resp'.calls = <<>>
              /\ vector_store' = vector_store
              /\ documents' = documents]_vars

\* C7 witness: /health answered TRUE with a store published.
HealthLoadedWitness ==
    resp.kind = "health" /\ resp.vector_store_loaded /\ vector_store # None

\* C8: neither /query nor /similar-documents ever invokes the retriever with
\* a top_k <= 0: such a request is clamped to 1 or rejected before retrieval.
RetrieverNeverGetsNonPositiveTopK ==
    resp.kind \in QueryKinds =>
        \A i \in DOMAIN resp.retrievals :
            resp.retrievals[i].by = "api" => resp.retrievals[i].top_k >= 1

\* C9: when an /analyze-image request has completed, with the insights or
\* with the failure of the vision call, the file it created is gone from the
\* upload directory (unless a later request holds the same name).
UploadReleasedOnEveryExit ==
    /\ resp.kind = "analyze"
    /\ resp.cause \in {"none", "vision_error"}
    /\ \A r \in Reqs : work[r].file # resp.file
    => resp.file \notin uploads

\* C10: a /refresh that fails leaves vector_store as it was, a published
\* store never becomes None again, and /health never answers TRUE without a
\* store.
StoreSurvivesFailedRefresh ==
    [][/\ vector_store # None => vector_store' # None
       /\ \A r \in Reqs :
             work[r].kind = "refresh" /\ Completes(r) /\ resp'.status # 200
                 => vector_store' = vector_store
       /\ resp'.kind = "health" /\ resp'.vector_store_loaded => vector_store' # None]_vars

\* C10 witness: a /refresh failed while a store was published, and the store
\* is still there.
FailedRefreshWitness ==
    /\ resp.kind = "refresh" /\ resp.status = 500
    /\ resp.cause = "build_error"
    /\ vector_store # None

====
